---- MODULE Spec2Model ----
\* A model of the JSAlert dialog class (src/webpack.config.js, lines 64-525):
\* the per-dialog lifecycle (show, _show, dismiss, dismissIn, handleEvent and
\* the pointer handlers of createPopup), the shared popup queue and the
\* event emitter it relies on.  queue.js and event-source.js are imported by
\* the source but are not part of it; they are modelled from the design
\* document (sections 4.1 and 4.2).
\*
\* JavaScript runs one task at a time.  A promise's then-callback never runs
\* inside the call that resolves the promise: it is queued as a microtask and
\* runs once the synchronous code that is executing has returned.  The
\* model keeps that queue (micro).  Timer callbacks and input events are
\* tasks of their own and start only when the microtask queue is empty;
\* calls made by the program (show, dismiss, dismissIn) are synchronous code
\* and may come at any point.
EXTENDS Integers, Sequences, FiniteSets, TLC

\* ---------------------------------------------------------------- bounds
NumDialogs == 3
NumBuilt == 2
MaxButtons == 2
MaxShows == 2
MaxTimers == 1

Dialogs == 1..NumDialogs

\* ------------------------------------------------------- JavaScript values
\* Every JavaScript value the dialogs handle is written as a string, so that
\* undefined, null, false and the empty string stay four different values.
Undefined == "undefined"
Null == "null"
True == "true"
False == "false"
Str(s) == "s:" \o s

\* JavaScript truthiness of the values above (used by !x and x || y).
Truthy(v) == v \notin {Undefined, Null, False, Str("")}

\* x || y
OrElse(x, y) == IF Truthy(x) THEN x ELSE y

KeyEnter == 13
KeyEscape == 27

\* ------------------------------------------------------------- sequences
InSeq(x, s) == \E i \in 1..Len(s) : s[i] = x

Without(s, x) == SelectSeq(s, LAMBDA y : y # x)

Count(s, x) == Cardinality({i \in 1..Len(s) : s[i] = x})

\* ------------------------------------------------ configuration of a dialog
\* addButton(text, value, type): the value defaults to the text, the type to
\* "default" for the first button and "normal" for every later one.
addButton(btns, text, value, type) ==
  Append(btns, [text  |-> text,
                value |-> IF value = Undefined THEN text ELSE value,
                type  |-> IF Truthy(type) THEN type
                          ELSE IF Len(btns) = 0 THEN "default" ELSE "normal"])

\* addTextField(value, type, placeholderText)
addTextField(fields, value) == Append(fields, [value |-> OrElse(value, Str(""))])

\* new JSAlert(text, title): the fields of a freshly constructed dialog that
\* the configuration calls fill in.  kind records which static constructor
\* built it; reenter says whether the caller subscribed handlers that call
\* dismiss again from inside "cancelled", "complete" and "closed".
constructor(kind) ==
  [kind |-> kind, buttons |-> <<>>, textFields |-> <<>>, cancelable |-> True,
   reenter |-> FALSE]

\* JSAlert.alert(text, title, icon, closeText = "Close")
alert ==
  [constructor("alert") EXCEPT
     !.buttons = addButton(@, Str("Close"), Null, Undefined)]

\* JSAlert.confirm(text, title, icon, acceptText = "OK", rejectText = "Cancel")
confirm ==
  [constructor("confirm") EXCEPT
     !.buttons = addButton(addButton(@, Str("OK"), True, Undefined),
                           Str("Cancel"), False, Undefined)]

\* JSAlert.prompt(text, defaultText, ...): the dialog it builds.  The
\* then-callback it chains on show() is PromptThen below.
prompt(defaultText) ==
  [constructor("prompt") EXCEPT
     !.buttons = addButton(addButton(@, Str("OK"), True, "default"),
                           Str("Cancel"), False, "cancel"),
     !.textFields = addTextField(@, defaultText)]

\* JSAlert.loader(text, cancelable)
loader(cancelable) ==
  [constructor("loader") EXCEPT !.cancelable = cancelable]

\* A dialog built by hand: new JSAlert(), one addButton(text) call per entry
\* of types (with that type argument), and cancelable assigned directly.
RECURSIVE addButtons(_, _)
addButtons(types, n) ==
  IF n = 0 THEN <<>>
  ELSE addButton(addButtons(types, n - 1), Str("B" \o ToString(n)), Undefined, types[n])

custom(types, cancelable, reenter) ==
  [constructor("custom") EXCEPT
     !.buttons = addButtons(types, Len(types)),
     !.cancelable = cancelable,
     !.reenter = reenter]

\* A hand-built dialog with two text fields.
form(types) ==
  [custom(types, True, FALSE) EXCEPT
     !.textFields = addTextField(addTextField(<<>>, Undefined), Undefined)]

TypeArgs == {Undefined, "default", "cancel", "normal"}

TypeLists == UNION {[1..n -> TypeArgs] : n \in 0..MaxButtons}

\* The dialogs a caller may build.
Configs ==
  {alert, confirm, prompt(Undefined), prompt(Str("default")),
   loader(True), loader(False), loader(Undefined)}
  \cup {custom(t, c, r) : t \in TypeLists, c \in {True, False}, r \in BOOLEAN}
  \cup {form(<<>>), form(<<Undefined>>)}

\* The dialogs of the runs that exercise the queue.
PlainConfigs == {alert}

\* A dialog of the model that the program never constructs.
absent == constructor("none")

\* ------------------------------------------------------------------ state
VARIABLES
  hasWindow,    \* typeof window !== "undefined": the environment can render
  cfg,          \* cfg[d]: buttons, textFields, cancelable of dialog d (and its kind)
  dismissed,    \* this.dismissed
  cancelled,    \* this.cancelled
  result,       \* this.result
  elems,        \* this.elems: "none" (never created), "shown" (in the document),
                \* "fading" (in the document, the removal timer of removeElements
                \* is pending), "removed" (taken out of the document)
  stale,        \* stale[d]: elements an earlier _show() created are still in the
                \* document, with their handlers, and this.elems no longer
                \* refers to them
  keypress,     \* the keypress event that is to follow a keydown: <<d, i>> for
                \* text field i of d, << >> if there is none
  elemValue,    \* textFields[i].elem.value, <<>> while the elements do not exist
  callback,     \* buttons[i].callback: the promise addButton returned, "unresolved"
                \* or the value it was resolved with
  log,          \* the events the dialog has emitted, in order: <<name, payload>>
  atEmit,       \* history: atEmit[d][k] is what a subscriber saw of d when it
                \* received emission k of log[d]: dismissed, and queued (in pending)
  answer,       \* the promise a static constructor returned (prompt, and all four
                \* without a window): "none", "waiting" (subscribed to "closed"),
                \* "queued" (its callback is a microtask) or its value
  pending,      \* the popup queue, head first
  micro,        \* the microtask queue, head first
  listeners,    \* the dialogs registered as keydown listeners of window, in order
  timers,       \* timers[d]: dismissIn timers of d that have not fired
  showOrder,    \* history: the dialogs in the order of their show() calls
  openedOrder,  \* history: the dialogs in the order of their "opened" emissions
  early,        \* history: early[d] iff dismiss took effect on d while it was Queued
  contested,    \* history: the head of the queue was removed while two or more
                \* dialogs waited behind it
  last,         \* history: the handler that ran last, with the dialogs that were
                \* Active (act) and dismissed (dis) when it started
  by            \* history: by[d] is the handler in which dismiss took effect on d

vars == <<hasWindow, cfg, dismissed, cancelled, result, elems, stale, keypress, elemValue, callback, log, atEmit,
          answer, pending, micro, listeners, timers, showOrder, openedOrder, early, contested, last, by>>

\* The mutable program state as one record, so that the methods below can be
\* written as functions from state to state and composed as the code calls them.
World ==
  [dismissed |-> dismissed, cancelled |-> cancelled, result |-> result,
   elems |-> elems, stale |-> stale, elemValue |-> elemValue, callback |-> callback, log |-> log,
   atEmit |-> atEmit,
   answer |-> answer, pending |-> pending, micro |-> micro, listeners |-> listeners]

Buttons(d) == cfg[d].buttons

\* ------------------------------------------------------- the event emitter
\* emit(name, payload) without subscribers other than the prompt's
\* when("closed"): the emission is recorded, and the first "closed" resolves
\* the future when("closed") returned, which queues PromptThen as a microtask.
emitPlain(w, d, name, payload) ==
  LET w1 == [w EXCEPT !.log[d] = Append(@, <<name, payload>>),
                      !.atEmit[d] = Append(@, [dismissed |-> w.dismissed[d],
                                               queued |-> InSeq(d, w.pending)])]
  IN IF name = "closed" /\ w1.answer[d] = "waiting"
     THEN [w1 EXCEPT !.answer[d] = "queued",
                     !.micro = Append(@, [job |-> "then", d |-> d])]
     ELSE w1

\* --------------------------------------------------------- the popup queue
\* The future add(dialog) returned resolves: the then-callback show() chained
\* on it becomes a microtask.
admit(w, d) == [w EXCEPT !.micro = Append(@, [job |-> "opened", d |-> d])]

\* Queue.add(dialog): append to pending; admitted at once if pending was empty.
QueueAdd(w, d) ==
  LET w1 == [w EXCEPT !.pending = Append(@, d)]
  IN IF w.pending = <<>> THEN admit(w1, d) ELSE w1

\* Queue.remove changed so that admission advances to the dialog that was
\* added last, which moves to the head.
QueueRemove_lifo(w, d) ==
  IF ~InSeq(d, w.pending) THEN w
  ELSE LET rest == Without(w.pending, d)
           newest == rest[Len(rest)]
       IN IF Head(w.pending) = d /\ rest # <<>>
          THEN admit([w EXCEPT !.pending = <<newest>> \o SubSeq(rest, 1, Len(rest) - 1)],
                     newest)
          ELSE [w EXCEPT !.pending = rest]

\* Queue.remove(dialog): remove it wherever it sits; if it was the head,
\* admission advances to the new head, if any.  Removing an absent dialog is
\* a no-op.
QueueRemove(w, d) ==
  IF ~InSeq(d, w.pending) THEN w
  ELSE LET rest == Without(w.pending, d)
           w1 == [w EXCEPT !.pending = rest]
       IN IF Head(w.pending) = d /\ rest # <<>> THEN admit(w1, Head(rest)) ELSE w1

\* ----------------------------------------------------------------- dialog
\* getTextFieldValue(index): info.elem ? info.elem.value : info.value
\* (fields are numbered from 1 here, from 0 in the source).
getTextFieldValue(w, d, index) ==
  IF index <= Len(w.elemValue[d])
  THEN w.elemValue[d][index]
  ELSE cfg[d].textFields[index].value

\* show(): JSAlert.popupQueue.add(this).then(callback)
show(w, d) == QueueAdd(w, d)

\* _show(): createBackground(), createPopup(), addEventListener("keydown", this).
\* The elements are created anew and this.elems refers to the new ones: those
\* of an earlier _show() that are still in the document stay there, and a
\* removal timer that is pending will remove the new ones.  Registering the
\* same listener object twice keeps a single registration.
_show(w, d) ==
  [w EXCEPT !.elems[d] = IF @ = "fading" THEN "fading" ELSE "shown",
            !.stale[d] = @ \/ w.elems[d] \in {"shown", "fading"},
            !.elemValue[d] = [i \in 1..Len(cfg[d].textFields) |-> cfg[d].textFields[i].value],
            !.listeners = IF InSeq(d, @) THEN @ ELSE Append(@, d)]

\* removeElements(): nothing if the container was never created; otherwise
\* start the fade and schedule the removal 250 ms later.
removeElements(w, d) ==
  IF w.elems[d] = "none" THEN w ELSE [w EXCEPT !.elems[d] = "fading"]

\* dismiss() without its guard.
alreadyDismissed_never(w, d) == FALSE

\* dismiss(), line 245: if (this.dismissed) return;
alreadyDismissed(w, d) == w.dismissed[d]

\* dismiss() storing the result without looking at its type.
storeResult_keepFlag(w, d, r) == [w EXCEPT !.result[d] = r]

\* dismiss(), lines 252-253: this.result = result; cancelled if no result given.
storeResult(w, d, r) ==
  [w EXCEPT !.result[d] = r,
            !.cancelled[d] = IF r = Undefined THEN TRUE ELSE @]

\* dismiss() emitting "complete" whatever the flag says.
outcomeEvent_complete(w, d) == "complete"

\* dismiss(), lines 262-263: which of "cancelled" and "complete" is emitted.
outcomeEvent(w, d) == IF w.cancelled[d] THEN "cancelled" ELSE "complete"

\* emit(name, payload) with the caller's subscribers: a dialog configured with
\* reenter has handlers on "cancelled", "complete" and "closed" that call
\* dismiss("again") on the dialog that is emitting.  handlers is FALSE inside
\* such a call: a handler re-enters once per emission.
RECURSIVE dismissWith(_, _, _, _)
emitWith(w, d, name, payload, handlers) ==
  LET w1 == emitPlain(w, d, name, payload)
  IN IF handlers /\ cfg[d].reenter /\ name \in {"cancelled", "complete", "closed"}
     THEN dismissWith(w1, d, Str("again"), FALSE)
     ELSE w1

\* dismiss(result)
dismissWith(w, d, r, handlers) ==
  IF alreadyDismissed(w, d) THEN w
  ELSE LET w1 == [w EXCEPT !.dismissed[d] = TRUE]
           w2 == QueueRemove(w1, d)
           w3 == storeResult(w2, d, r)
           w4 == removeElements(w3, d)
           w5 == [w4 EXCEPT !.listeners = Without(@, d)]
           w6 == emitWith(w5, d, outcomeEvent(w5, d), w5.result[d], handlers)
       IN emitWith(w6, d, "closed", w6.result[d], handlers)

emit(w, d, name, payload) == emitWith(w, d, name, payload, TRUE)

dismiss(w, d, r) == dismissWith(w, d, r, TRUE)

\* The then-callback of show(): this._show(); this.emit("opened").
showCallback(w, d) == emit(_show(w, d), d, "opened", Undefined)

\* buttons[i].callback(arg): resolves the promise addButton returned; a
\* promise keeps the first value it is resolved with.
invokeCallback(w, d, i, arg) ==
  IF w.callback[d][i] = "unresolved" THEN [w EXCEPT !.callback[d][i] = arg] ELSE w

\* The scan changed to keep the last button of the type instead of returning
\* at the first.
firstOfType_last(btns, type) ==
  IF \E i \in 1..Len(btns) : btns[i].type = type
  THEN CHOOSE i \in 1..Len(btns) :
         /\ btns[i].type = type
         /\ \A j \in (i + 1)..Len(btns) : btns[j].type # type
  ELSE 0

\* The index of the first button of the given type, 0 if there is none
\* (the for loops of handleEvent).
firstOfType(btns, type) ==
  IF \E i \in 1..Len(btns) : btns[i].type = type
  THEN CHOOSE i \in 1..Len(btns) :
         /\ btns[i].type = type
         /\ \A j \in 1..(i - 1) : btns[j].type # type
  ELSE 0

\* The Enter branch changed to pass the callback the result the dialog held
\* before dismiss was called.
handleEnter_preResult(w, d) ==
  LET i == firstOfType(Buttons(d), "default")
  IN IF i # 0
     THEN invokeCallback(dismiss(w, d, Buttons(d)[i].value), d, i, w.result[d])
     ELSE dismiss([w EXCEPT !.cancelled[d] = TRUE], d, Undefined)

\* The Enter branch changed to do nothing when there is no default button.
handleEnter_ignore(w, d) ==
  LET i == firstOfType(Buttons(d), "default")
  IN IF i # 0
     THEN LET w1 == dismiss(w, d, Buttons(d)[i].value)
          IN invokeCallback(w1, d, i, w1.result[d])
     ELSE w

\* handleEvent(e), Enter branch (lines 466-485).
handleEnter(w, d) ==
  LET i == firstOfType(Buttons(d), "default")
  IN IF i # 0
     THEN LET w1 == dismiss(w, d, Buttons(d)[i].value)
          IN invokeCallback(w1, d, i, w1.result[d])
     ELSE dismiss([w EXCEPT !.cancelled[d] = TRUE], d, Undefined)

\* The Escape branch without its test of this.cancelable.
handleEscape_always(w, d) ==
  LET w0 == [w EXCEPT !.cancelled[d] = TRUE, !.result[d] = Null]
      i == firstOfType(Buttons(d), "cancel")
  IN IF i # 0
     THEN LET w1 == dismiss(w0, d, Buttons(d)[i].value)
          IN invokeCallback(w1, d, i, w1.result[d])
     ELSE dismiss(w0, d, Undefined)

\* handleEvent(e), Escape branch (lines 488-512).
handleEscape(w, d) ==
  IF ~Truthy(cfg[d].cancelable) THEN w
  ELSE LET w0 == [w EXCEPT !.cancelled[d] = TRUE, !.result[d] = Null]
           i == firstOfType(Buttons(d), "cancel")
       IN IF i # 0
          THEN LET w1 == dismiss(w0, d, Buttons(d)[i].value)
               IN invokeCallback(w1, d, i, w1.result[d])
          ELSE dismiss(w0, d, Undefined)

\* handleEvent(e)
handleEvent(w, d, keyCode) ==
  IF keyCode = KeyEnter THEN handleEnter(w, d)
  ELSE IF keyCode = KeyEscape THEN handleEscape(w, d)
  ELSE w

\* The button handler without its test of the button's type.
buttonHandler_noCancel(w, d, i) ==
  LET b == Buttons(d)[i]
  IN dismiss(invokeCallback(w, d, i, b.value), d, b.value)

\* The button handler createPopup installs (lines 413-417).
buttonHandler(w, d, i) ==
  LET b == Buttons(d)[i]
      w1 == invokeCallback(w, d, i, b.value)
      w2 == IF b.type = "cancel" THEN [w1 EXCEPT !.cancelled[d] = TRUE] ELSE w1
  IN dismiss(w2, d, b.value)

\* The backdrop handler changed to dismiss with the first button's value.
backdropHandler_button(w, d) ==
  IF ~Truthy(cfg[d].cancelable) THEN w
  ELSE dismiss([w EXCEPT !.cancelled[d] = TRUE], d,
               IF Len(Buttons(d)) > 0 THEN Buttons(d)[1].value ELSE Undefined)

\* The handler createPopup installs on the container, the backdrop
\* (lines 320-327).
backdropHandler(w, d) ==
  IF ~Truthy(cfg[d].cancelable) THEN w
  ELSE dismiss([w EXCEPT !.cancelled[d] = TRUE], d, Undefined)

\* The then-callback changed to return the field's value whatever happened.
promptThen_ignoreCancel(w, d) ==
  [w EXCEPT !.answer[d] = getTextFieldValue(w, d, 1)]

\* The keypress handler createPopup installs on text field idx (lines
\* 376-388, Enter pressed): the last field dismisses with "enter-pressed",
\* any other moves the focus to the next field.
fieldKeypress(w, d, idx) ==
  IF idx >= Len(cfg[d].textFields) THEN dismiss(w, d, Str("enter-pressed")) ELSE w

\* The then-callback JSAlert.prompt chains on show() (lines 146-150).
promptThen(w, d) ==
  [w EXCEPT !.answer[d] = IF w.cancelled[d] THEN Null ELSE getTextFieldValue(w, d, 1)]

\* The fallback changed to go on and show the dialog.
headlessFallback_show(w, d) == show(w, d)

\* The first statement of alert, confirm, prompt and loader where window is
\* undefined: return Promise.resolve(console.log(...)), a promise resolved
\* with what console.log returns.
headlessFallback(w, d) == [w EXCEPT !.answer[d] = Undefined]

\* The timer callback changed to pass dismiss a value.
timerCallback_value(w, d) == dismiss(w, d, Null)

\* The callback dismissIn hands to setTimeout, this.dismiss.bind(this): the
\* timer calls it without arguments.
timerCallback(w, d) == dismiss(w, d, Undefined)

\* Whether a handler of the keydown event called e.preventDefault() (lines
\* 473 and 499): handleEvent does when it finds the button it looks for.
keydownPrevented(w, keyCode) ==
  \E k \in 1..Len(w.listeners) :
    \/ /\ keyCode = KeyEnter
       /\ firstOfType(Buttons(w.listeners[k]), "default") # 0
    \/ /\ keyCode = KeyEscape
       /\ Truthy(cfg[w.listeners[k]].cancelable)
       /\ firstOfType(Buttons(w.listeners[k]), "cancel") # 0

\* A keydown event on window: the listeners registered when the event is
\* dispatched run in registration order, each unless it has been removed
\* meanwhile.
RECURSIVE dispatchKeydown(_, _, _)
dispatchKeydown(w, ls, keyCode) ==
  IF ls = <<>> THEN w
  ELSE LET d == Head(ls)
           w1 == IF InSeq(d, w.listeners) THEN handleEvent(w, d, keyCode) ELSE w
       IN dispatchKeydown(w1, Tail(ls), keyCode)

\* ---------------------------------------------------------------- actions
ShowCount(d) == Count(showOrder, d)

\* Rendered: the dialog's current elements are in the document and
\* removeElements has not been called on them.  When _show() runs during the
\* fade (elems "fading" and earlier elements left behind) the current elements
\* are the new ones: removeElements ran before they existed, on the old ones.
Rendered(d) == elems[d] = "shown" \/ (elems[d] = "fading" /\ stale[d])

\* The states of section 4.3 of the design document, read off the fields.
Queued(d) == ShowCount(d) > 0 /\ elems[d] = "none" /\ ~dismissed[d]

Active(d) == Rendered(d) /\ ~dismissed[d]

\* Elements of d, with the handlers createPopup attached to them, are in the
\* document.
InDocument(d) == elems[d] \in {"shown", "fading"} \/ stale[d]

ActiveSet == {d \in Dialogs : Active(d)}

DismissedSet == {d \in Dialogs : dismissed[d]}

NoOp ==
  [op |-> "none", d |-> 0, key |-> 0, btn |-> 0, val |-> Undefined, act |-> {}, dis |-> {}]

\* The caller holds the dialog object: alert, confirm and loader return it,
\* prompt returns a plain promise.
HasHandle(d) == cfg[d].kind \notin {"prompt", "none"}

\* The new state is w; the history variables follow from the step.
Commit(w, opened, l) ==
  /\ dismissed' = w.dismissed
  /\ cancelled' = w.cancelled
  /\ result' = w.result
  /\ elems' = w.elems
  /\ stale' = w.stale
  /\ elemValue' = w.elemValue
  /\ callback' = w.callback
  /\ log' = w.log
  /\ atEmit' = w.atEmit
  /\ answer' = w.answer
  /\ pending' = w.pending
  /\ micro' = w.micro
  /\ listeners' = w.listeners
  /\ openedOrder' = openedOrder \o opened
  /\ early' = [d \in Dialogs |-> early[d] \/ (Queued(d) /\ w.dismissed[d])]
  /\ contested' = (contested \/ (/\ pending # <<>>
                                 /\ ~InSeq(Head(pending), w.pending)
                                 /\ Cardinality({w.pending[k] : k \in 1..Len(w.pending)}) >= 2))
  /\ last' = [l EXCEPT !.act = ActiveSet, !.dis = DismissedSet]
  /\ by' = [d \in Dialogs |-> IF ~dismissed[d] /\ w.dismissed[d] THEN last' ELSE by[d]]
  /\ cfg' = cfg
  /\ hasWindow' = hasWindow

InitState ==
  /\ dismissed = [d \in Dialogs |-> FALSE]
  /\ cancelled = [d \in Dialogs |-> FALSE]
  /\ result = [d \in Dialogs |-> False]
  /\ elems = [d \in Dialogs |-> "none"]
  /\ stale = [d \in Dialogs |-> FALSE]
  /\ keypress = <<>>
  /\ elemValue = [d \in Dialogs |-> <<>>]
  /\ callback = [d \in Dialogs |-> [i \in 1..Len(cfg[d].buttons) |-> "unresolved"]]
  /\ log = [d \in Dialogs |-> <<>>]
  /\ atEmit = [d \in Dialogs |-> <<>>]
  /\ answer = [d \in Dialogs |-> "none"]
  /\ pending = <<>>
  /\ micro = <<>>
  /\ listeners = <<>>
  /\ timers = [d \in Dialogs |-> 0]
  /\ showOrder = <<>>
  /\ openedOrder = <<>>
  /\ early = [d \in Dialogs |-> FALSE]
  /\ contested = FALSE
  /\ last = NoOp
  /\ by = [d \in Dialogs |-> NoOp]

\* The static constructors.
StaticKinds == {"alert", "confirm", "prompt", "loader"}

\* One dialog of any configuration, alone in the runtime.  Without a window
\* the program calls the static constructors only: a hand-built dialog needs
\* the document.
Init ==
  /\ hasWindow \in BOOLEAN
  /\ cfg \in {c \in [Dialogs -> Configs \cup {absent}] :
               /\ \A d \in Dialogs : c[d] = absent <=> d > 1
               /\ hasWindow \/ c[1].kind \in StaticKinds}
  /\ InitState

\* Several one-button dialogs contending for the queue.
InitQueue ==
  /\ hasWindow = TRUE
  /\ cfg \in [Dialogs -> PlainConfigs]
  /\ InitState

\* A dialog and one that contends with it for the queue: NumBuilt one-button
\* dialogs, the others are never constructed.
InitBuilt ==
  /\ hasWindow = TRUE
  /\ cfg \in {c \in [Dialogs -> PlainConfigs \cup {absent}] :
               \A d \in Dialogs : c[d] = absent <=> d > NumBuilt}
  /\ InitState

\* alert.show().  The static constructors call it once, right after building
\* the dialog; prompt also chains its then-callback, which subscribes to the
\* first "closed".  The caller of a dialog it holds may call show() again
\* at any time.
Show(d) ==
  /\ hasWindow
  /\ cfg[d] # absent
  /\ \/ ShowCount(d) = 0
     \/ HasHandle(d) /\ ShowCount(d) < MaxShows
  /\ LET w1 == show(World, d)
         w2 == IF cfg[d].kind = "prompt" /\ w1.answer[d] = "none"
               THEN [w1 EXCEPT !.answer[d] = "waiting"] ELSE w1
     IN Commit(w2, <<>>, [NoOp EXCEPT !.op = "show", !.d = d])
  /\ showOrder' = Append(showOrder, d)
  /\ UNCHANGED <<timers, keypress>>

\* JSAlert.alert, confirm, prompt or loader called where window is undefined:
\* the call returns at its first statement.
Headless(d) ==
  /\ ~hasWindow
  /\ cfg[d].kind \in StaticKinds
  /\ answer[d] = "none"
  /\ Commit(headlessFallback(World, d), <<>>, [NoOp EXCEPT !.op = "headless", !.d = d])
  /\ UNCHANGED <<timers, showOrder, keypress>>

\* The head of the microtask queue runs.
RunMicrotask ==
  /\ micro # <<>>
  /\ LET j == Head(micro)
         w0 == [World EXCEPT !.micro = Tail(@)]
     IN IF j.job = "opened"
        THEN Commit(showCallback(w0, j.d), <<j.d>>, [NoOp EXCEPT !.op = "opened", !.d = j.d])
        ELSE Commit(promptThen(w0, j.d), <<>>, [NoOp EXCEPT !.op = "then", !.d = j.d])
  /\ UNCHANGED <<timers, showOrder, keypress>>

\* alert.dismiss(result) called by the program, with or without a result.  A
\* hand-built dialog can be dismissed before it is shown; the static
\* constructors return the dialog only after show().
Dismiss(d, r) ==
  /\ HasHandle(d)
  /\ cfg[d].kind = "custom" \/ ShowCount(d) > 0
  /\ Commit(dismiss(World, d, r), <<>>, [NoOp EXCEPT !.op = "dismiss", !.d = d, !.val = r])
  /\ UNCHANGED <<timers, showOrder, keypress>>

\* alert.dismissIn(time): setTimeout(this.dismiss.bind(this), time)
DismissIn(d) ==
  /\ HasHandle(d)
  /\ cfg[d].kind = "custom" \/ ShowCount(d) > 0
  /\ timers[d] < MaxTimers
  /\ timers' = [timers EXCEPT ![d] = @ + 1]
  /\ Commit(World, <<>>, [NoOp EXCEPT !.op = "dismissIn", !.d = d])
  /\ UNCHANGED <<showOrder, keypress>>

\* A dismissIn timer fires: dismiss() is called with no argument.
TimerFire(d) ==
  /\ micro = <<>>
  /\ timers[d] > 0
  /\ timers' = [timers EXCEPT ![d] = @ - 1]
  /\ Commit(timerCallback(World, d), <<>>, [NoOp EXCEPT !.op = "timer", !.d = d])
  /\ UNCHANGED <<showOrder, keypress>>

\* The user presses Enter or Escape: a keydown event on window.
Keydown(keyCode) ==
  /\ micro = <<>> /\ keypress = <<>>
  /\ listeners # <<>>
  /\ Commit(dispatchKeydown(World, listeners, keyCode), <<>>,
            [NoOp EXCEPT !.op = "keydown", !.key = keyCode])
  /\ UNCHANGED <<timers, showOrder, keypress>>

\* The user presses button i of d.  The elements stay in the document, and
\* their handlers attached, until the removal timer has run.
ButtonPress(d, i) ==
  /\ micro = <<>>
  /\ InDocument(d)
  /\ Commit(buttonHandler(World, d, i), <<>>, [NoOp EXCEPT !.op = "button", !.d = d, !.btn = i])
  /\ UNCHANGED <<timers, showOrder, keypress>>

\* The user presses the backdrop of d.
BackdropPress(d) ==
  /\ micro = <<>>
  /\ InDocument(d)
  /\ Commit(backdropHandler(World, d), <<>>, [NoOp EXCEPT !.op = "backdrop", !.d = d])
  /\ UNCHANGED <<timers, showOrder, keypress>>

TypedValues == {Str("answer"), Str("")}

\* The user edits text field i of d.
Type(d, i, v) ==
  /\ micro = <<>>
  /\ elems[d] \in {"shown", "fading"}
  /\ elemValue[d][i] # v
  /\ Commit([World EXCEPT !.elemValue[d][i] = v], <<>>,
            [NoOp EXCEPT !.op = "type", !.d = d])
  /\ UNCHANGED <<timers, showOrder, keypress>>

\* The user presses Enter with the focus in text field i of d.  The keydown
\* event bubbles to window, where the keydown listeners run; a keypress event
\* at the field is to follow, as an event of its own, unless a listener
\* prevented the default.
EnterKey(d, i) ==
  /\ micro = <<>> /\ keypress = <<>>
  /\ InDocument(d)
  /\ Commit(dispatchKeydown(World, listeners, KeyEnter), <<>>,
            [NoOp EXCEPT !.op = "enterKey", !.d = d, !.btn = i])
  /\ keypress' = IF keydownPrevented(World, KeyEnter) THEN <<>> ELSE <<d, i>>
  /\ UNCHANGED <<timers, showOrder>>

\* The keypress event that follows the keydown of EnterKey, once the
\* microtasks the keydown listeners queued have run: the keypress listener of
\* the field runs if the field is still in the document.
Keypress ==
  /\ micro = <<>> /\ keypress # <<>>
  /\ LET d == keypress[1]
         i == keypress[2]
     IN Commit(IF InDocument(d) THEN fieldKeypress(World, d, i) ELSE World, <<>>,
               [NoOp EXCEPT !.op = "keypress", !.d = d, !.btn = i])
  /\ keypress' = <<>>
  /\ UNCHANGED <<timers, showOrder>>

\* A keypress event of the Enter key reaches text field i of d by itself:
\* dispatched by a script, or by a platform whose keydown event carries
\* another key code.
FieldEnter(d, i) ==
  /\ micro = <<>> /\ keypress = <<>>
  /\ InDocument(d)
  /\ Commit(fieldKeypress(World, d, i), <<>>,
            [NoOp EXCEPT !.op = "fieldEnter", !.d = d, !.btn = i])
  /\ UNCHANGED <<timers, showOrder, keypress>>

\* The timer removeElements set runs: the elements leave the document.
RemovalTimer(d) ==
  /\ micro = <<>>
  /\ elems[d] = "fading"
  /\ Commit([World EXCEPT !.elems[d] = "removed"], <<>>, [NoOp EXCEPT !.op = "removed", !.d = d])
  /\ UNCHANGED <<timers, showOrder, keypress>>

ProgramResults == {Undefined, Str("done")}

Next ==
  \/ \E d \in Dialogs : Show(d)
  \/ \E d \in Dialogs : Headless(d)
  \/ RunMicrotask
  \/ \E d \in Dialogs, r \in ProgramResults : Dismiss(d, r)
  \/ \E d \in Dialogs : DismissIn(d)
  \/ \E d \in Dialogs : TimerFire(d)
  \/ \E k \in {KeyEnter, KeyEscape} : Keydown(k)
  \/ \E d \in Dialogs : \E i \in 1..Len(cfg[d].buttons) : ButtonPress(d, i)
  \/ \E d \in Dialogs : BackdropPress(d)
  \/ \E d \in Dialogs : \E i \in 1..Len(elemValue[d]) : \E v \in TypedValues : Type(d, i, v)
  \/ \E d \in Dialogs : \E i \in 1..Len(elemValue[d]) : FieldEnter(d, i)
  \/ \E d \in Dialogs : \E i \in 1..Len(elemValue[d]) : EnterKey(d, i)
  \/ Keypress
  \/ \E d \in Dialogs : RemovalTimer(d)

Spec == Init /\ [][Next]_vars

\* The runs that exercise the queue: every dialog is shown once, and leaves
\* by a call of dismiss or a key press.
NextQueue ==
  \/ \E d \in Dialogs : ShowCount(d) = 0 /\ Show(d)
  \/ RunMicrotask
  \/ \E d \in Dialogs, r \in ProgramResults : Dismiss(d, r)
  \/ \E k \in {KeyEnter, KeyEscape} : Keydown(k)
  \/ \E d \in Dialogs : RemovalTimer(d)

SpecQueue == InitQueue /\ [][NextQueue]_vars

\* The same runs on an event loop that does its work: a then-callback that
\* has been queued as a microtask is run.
SpecQueueFair == SpecQueue /\ WF_vars(RunMicrotask)

\* The runs that exercise dismissIn: every dialog is shown once and leaves by
\* a call of dismiss or by a timer, on an event loop that does its work:
\* queued microtasks are run and timers that were set fire.
NextTimer ==
  \/ \E d \in Dialogs : ShowCount(d) = 0 /\ Show(d)
  \/ RunMicrotask
  \/ \E d \in Dialogs, r \in ProgramResults : Dismiss(d, r)
  \/ \E d \in Dialogs : DismissIn(d)
  \/ \E d \in Dialogs : TimerFire(d)
  \/ \E d \in Dialogs : RemovalTimer(d)

SpecTimer ==
  /\ InitBuilt /\ [][NextTimer]_vars
  /\ WF_vars(RunMicrotask) /\ \A d \in Dialogs : WF_vars(TimerFire(d))

\* The runs in which the caller may show a dialog again after dismissing it.
NextReshow ==
  \/ \E d \in Dialogs : Show(d)
  \/ RunMicrotask
  \/ \E d \in Dialogs, r \in ProgramResults : Dismiss(d, r)
  \/ \E d \in Dialogs : RemovalTimer(d)

SpecReshow == InitBuilt /\ [][NextReshow]_vars

\* ----------------------------------------------------------------- claims
\* The emissions of d with the given name.
Emitted(d, name) == {k \in 1..Len(log[d]) : log[d][k][1] = name}

\* The last handler made dismiss take effect on d.
JustDismissed(d) == d \notin last.dis /\ dismissed[d]

\* The last two emissions of d are first, then "closed", both with payload p.
EndsWith(d, first, p) ==
  /\ Len(log[d]) >= 2
  /\ log[d][Len(log[d]) - 1] = <<first, p>>
  /\ log[d][Len(log[d])] = <<"closed", p>>

\* The position of d's show() call among all show() calls (d is shown once).
ShowPos(d) == CHOOSE k \in 1..Len(showOrder) : showOrder[k] = d

\* Elements are left behind only by a _show() that runs after the dismissal:
\* removeElements, which dismiss calls once, never runs after such a _show().
StaleOnlyAfterDismissal == \A d \in Dialogs : stale[d] => dismissed[d]

\* C1. Single-active invariant: at most one dialog is rendered at a time.
C1_SingleActive == Cardinality({d \in Dialogs : Rendered(d)}) <= 1

\* C2. Queue FIFO: when every dialog is shown once, the dialogs emit "opened"
\* in the order of their show() calls, each at most once, and a dialog opens
\* only after every dialog shown before it has been dismissed.
C2_QueueFIFO ==
  (\A d \in Dialogs : ShowCount(d) <= 1) =>
    /\ \A i, j \in 1..Len(openedOrder) :
         i < j => /\ openedOrder[i] # openedOrder[j]
                  /\ ShowPos(openedOrder[i]) < ShowPos(openedOrder[j])
    /\ \A i \in 1..Len(openedOrder) : \A k \in 1..(ShowPos(openedOrder[i]) - 1) :
         dismissed[showOrder[k]]

\* C2, its case: every dialog was shown, not in the order of their numbers,
\* two of them waited in the queue when its head was removed, all have opened
\* in the order shown, and the last one is on screen after the others were
\* dismissed.
C2_Witness ==
  /\ Len(showOrder) = NumDialogs
  /\ showOrder[1] # 1
  /\ contested
  /\ openedOrder = showOrder
  /\ \A k \in 1..(NumDialogs - 1) : dismissed[showOrder[k]]
  /\ Active(showOrder[NumDialogs])

\* C3. Idempotent dismissal: a dialog emits "closed" exactly once, however
\* often dismiss is called on it; and once it is dismissed no later call
\* emits "cancelled", "complete" or "closed" again, removes it from the queue
\* again, tears its elements down again or stores a result again (the only
\* later write to result is handleEvent's own this.result = null on Escape).
C3_IdempotentDismissal ==
  /\ [](\A d \in Dialogs :
          /\ Cardinality(Emitted(d, "closed")) = (IF dismissed[d] THEN 1 ELSE 0)
          /\ Cardinality(Emitted(d, "cancelled") \cup Emitted(d, "complete"))
               = (IF dismissed[d] THEN 1 ELSE 0))
  /\ [][\A d \in Dialogs : dismissed[d] =>
          /\ dismissed'[d]
          /\ SelectSeq(log'[d], LAMBDA e : e[1] # "opened")
               = SelectSeq(log[d], LAMBDA e : e[1] # "opened")
          /\ InSeq(d, pending) => InSeq(d, pending')
          /\ elems[d] = "shown" => elems'[d] = "shown"
          /\ result'[d] # result[d] =>
               /\ result'[d] = Null
               /\ last'.op = "keydown" /\ last'.key = KeyEscape]_vars

\* C3, its case: dismiss was called again on a dialog that was already
\* dismissed and whose own handlers had re-entered dismiss the first time.
C3_Witness ==
  \E d \in Dialogs :
    /\ cfg[d].reenter
    /\ last.op \in {"dismiss", "timer", "button"} /\ last.d = d
    /\ d \in last.dis
    /\ by[d].op = "keydown"
    /\ Cardinality(Emitted(d, "closed")) = 1

\* The last handler called dismiss on d with no argument.
NoValueCall(d) ==
  \/ last.op = "dismiss" /\ last.d = d /\ last.val = Undefined
  \/ last.op = "timer" /\ last.d = d
  \/ last.op = "backdrop" /\ last.d = d /\ Truthy(cfg[d].cancelable)
  \/ /\ last.op = "keydown" /\ last.key = KeyEnter /\ d \in last.act
     /\ \A i \in 1..Len(Buttons(d)) : Buttons(d)[i].type # "default"
  \/ /\ last.op = "keydown" /\ last.key = KeyEscape /\ d \in last.act
     /\ Truthy(cfg[d].cancelable)
     /\ \A i \in 1..Len(Buttons(d)) : Buttons(d)[i].type # "cancel"

\* C4. Cancel sentinel: a dismiss call without argument on a dialog that is
\* not yet dismissed leaves it cancelled, emits "cancelled" and then "closed",
\* and no "complete".
C4_CancelSentinel ==
  \A d \in Dialogs : NoValueCall(d) /\ d \notin last.dis =>
    /\ dismissed[d]
    /\ cancelled[d]
    /\ result[d] = Undefined
    /\ EndsWith(d, "cancelled", Undefined)
    /\ Emitted(d, "complete") = {}

\* C4, its case: the program called dismiss() on a rendered dialog.
C4_Witness ==
  \E d \in Dialogs :
    /\ last.op = "dismiss" /\ last.d = d /\ last.val = Undefined
    /\ d \in last.act
    /\ cancelled[d]

\* C5. Early cancel never renders: a dialog shown once and dismissed while it
\* was Queued (show() called, its callback not yet run) is never rendered and
\* never emits "opened".
C5_EarlyCancelNeverRenders ==
  \A d \in Dialogs : early[d] /\ ShowCount(d) = 1 =>
    /\ elems[d] = "none"
    /\ Emitted(d, "opened") = {}

\* C6. A dialog whose cancelable flag is false is never moved from Active to
\* dismissed with no value by Enter, Escape or a backdrop press.
C6_NotCancelable ==
  \A d \in Dialogs :
    /\ ~Truthy(cfg[d].cancelable)
    /\ last.op \in {"keydown", "backdrop"}
    /\ d \in last.act
    /\ JustDismissed(d)
    => result[d] # Undefined

\* C7. Default-button precedence: Enter on an Active dialog that has a
\* default button dismisses it with the value of the first default button,
\* not cancelled, emitting "complete" and then "closed" with that value.
C7_DefaultButton ==
  \A d \in Dialogs : \A i \in 1..Len(Buttons(d)) :
    /\ last.op = "keydown" /\ last.key = KeyEnter
    /\ d \in last.act
    /\ Buttons(d)[i].type = "default"
    /\ \A j \in 1..(i - 1) : Buttons(d)[j].type # "default"
    => /\ dismissed[d]
       /\ result[d] = Buttons(d)[i].value
       /\ ~cancelled[d]
       /\ EndsWith(d, "complete", Buttons(d)[i].value)
       /\ Emitted(d, "cancelled") = {}

\* C7, its case: Enter on a dialog whose first button is not the default one.
C7_Witness ==
  \E d \in Dialogs :
    /\ last.op = "keydown" /\ last.key = KeyEnter
    /\ d \in last.act
    /\ Len(Buttons(d)) = 2
    /\ Buttons(d)[1].type = "normal"
    /\ Buttons(d)[2].type = "default"
    /\ result[d] = Buttons(d)[2].value

\* C8. No default button: Enter on an Active dialog without a default button
\* (or without buttons) dismisses it with no value, cancelled, emitting
\* "cancelled" and then "closed".
C8_NoDefaultButton ==
  \A d \in Dialogs :
    /\ last.op = "keydown" /\ last.key = KeyEnter
    /\ d \in last.act
    /\ \A i \in 1..Len(Buttons(d)) : Buttons(d)[i].type # "default"
    => /\ dismissed[d]
       /\ result[d] = Undefined
       /\ cancelled[d]
       /\ EndsWith(d, "cancelled", Undefined)
       /\ Emitted(d, "complete") = {}

\* C8, its case: Enter on a dialog that has buttons, none of them default.
C8_Witness ==
  \E d \in Dialogs :
    /\ last.op = "keydown" /\ last.key = KeyEnter
    /\ d \in last.act
    /\ Len(Buttons(d)) > 0
    /\ \A i \in 1..Len(Buttons(d)) : Buttons(d)[i].type # "default"
    /\ cancelled[d]

\* The last handler was one of the four inputs that dismiss an Active alert.
AlertInput(d) ==
  /\ cfg[d].kind = "alert"
  /\ d \in last.act
  /\ \/ last.op \in {"button", "backdrop"} /\ last.d = d
     \/ last.op = "keydown"

\* C9 as stated: an Active alert dismissed by a button press, Enter, Escape or
\* a backdrop press has its single button's value as result.
C9_AlertAlwaysButtonValue ==
  \A d \in Dialogs : AlertInput(d) =>
    /\ dismissed[d]
    /\ result[d] = Buttons(d)[1].value

\* C9 as amended: a button press and Enter dismiss an Active alert with the
\* button's value (null), not cancelled; Escape and a backdrop press dismiss
\* it with no value (undefined), cancelled.
C9_AlertResult ==
  \A d \in Dialogs : AlertInput(d) =>
    /\ dismissed[d]
    /\ IF last.op = "button" \/ (last.op = "keydown" /\ last.key = KeyEnter)
       THEN /\ result[d] = Buttons(d)[1].value
            /\ result[d] = Null
            /\ ~cancelled[d]
            /\ EndsWith(d, "complete", Null)
       ELSE /\ result[d] = Undefined
            /\ cancelled[d]
            /\ EndsWith(d, "cancelled", Undefined)

\* C9, its case: Escape dismissed an Active alert.
C9_Witness ==
  \E d \in Dialogs :
    /\ AlertInput(d)
    /\ last.op = "keydown" /\ last.key = KeyEscape
    /\ result[d] = Undefined

\* The handler in which d was dismissed accepted the prompt (the accept
\* button or Enter) or cancelled it (the reject button, Escape, the backdrop).
AcceptPath(d) ==
  \/ by[d].op = "button" /\ Buttons(d)[by[d].btn].type = "default"
  \/ by[d].op = "keydown" /\ by[d].key = KeyEnter

CancelPath(d) ==
  \/ by[d].op = "button" /\ Buttons(d)[by[d].btn].type = "cancel"
  \/ by[d].op = "keydown" /\ by[d].key = KeyEscape
  \/ by[d].op = "backdrop"

\* C10. Prompt round-trip: when the promise prompt returned is settled, its
\* value is the text field's current value if the prompt was accepted, and
\* null if it was cancelled.
C10_PromptRoundTrip ==
  \A d \in Dialogs :
    cfg[d].kind = "prompt" /\ last.op = "then" /\ last.d = d =>
      /\ answer[d] \notin {"none", "waiting", "queued"}
      /\ AcceptPath(d) => answer[d] = elemValue[d][1]
      /\ CancelPath(d) => answer[d] = Null /\ answer[d] # elemValue[d][1]

\* C10, its case: the user typed an answer and pressed Enter.
C10_Witness ==
  \E d \in Dialogs :
    /\ cfg[d].kind = "prompt" /\ last.op = "then" /\ last.d = d
    /\ by[d].op = "keydown" /\ by[d].key = KeyEnter
    /\ cfg[d].textFields[1].value = Str("default")
    /\ answer[d] = Str("answer")

\* C11. Headless fallback: where window is undefined, a call of alert, confirm,
\* prompt or loader returns a promise that is already resolved, and no dialog
\* is constructed, queued or rendered, then or later.
C11_HeadlessFallback ==
  ~hasWindow =>
    /\ pending = <<>> /\ micro = <<>> /\ showOrder = <<>> /\ listeners = <<>>
    /\ \A d \in Dialogs :
         /\ elems[d] = "none" /\ log[d] = <<>> /\ ~dismissed[d]
         /\ answer[d] \in {"none", Undefined}
         /\ last.op = "headless" /\ last.d = d => answer[d] = Undefined

\* C11, its case: prompt was called without a window.
C11_Witness ==
  \E d \in Dialogs :
    /\ ~hasWindow /\ cfg[d].kind = "prompt"
    /\ last.op = "headless" /\ last.d = d
    /\ answer[d] = Undefined

\* C12. Every dismissal that takes effect emits one of "cancelled" and
\* "complete" ("cancelled" exactly when the cancelled flag is set) and then
\* one "closed", both with the dialog's result; and whenever one of the three
\* is emitted the dialog is already marked dismissed and out of the queue.
C12_DismissEmissions ==
  \A d \in Dialogs :
    /\ JustDismissed(d) =>
         /\ EndsWith(d, IF cancelled[d] THEN "cancelled" ELSE "complete", result[d])
         /\ Cardinality(Emitted(d, "cancelled") \cup Emitted(d, "complete")) = 1
         /\ Cardinality(Emitted(d, "closed")) = 1
    /\ \A k \in Emitted(d, "cancelled") \cup Emitted(d, "complete") \cup Emitted(d, "closed") :
         atEmit[d][k] = [dismissed |-> TRUE, queued |-> FALSE]

\* C12, its case: a dialog waiting in the queue was dismissed with a result.
C12_Witness ==
  \E d \in Dialogs :
    /\ JustDismissed(d) /\ early[d]
    /\ last.op = "dismiss" /\ last.val = Str("done")
    /\ ~cancelled[d]

\* The then-callback of d's show() is queued as a microtask.
Admitted(d) == \E k \in 1..Len(micro) : micro[k] = [job |-> "opened", d |-> d]

\* While every dialog is shown once the queue advances: a dismissed dialog
\* does not stay in the queue, the head has always been admitted (it is
\* rendered or its callback is queued), and a dialog that is the head is
\* eventually Active unless it is dismissed first.
QueueAdvanceShownOnce ==
  /\ [](\A d \in Dialogs : InSeq(d, pending) => ~dismissed[d])
  /\ [](pending # <<>> => Rendered(Head(pending)) \/ Admitted(Head(pending)))
  /\ \A d \in Dialogs :
       (pending # <<>> /\ Head(pending) = d) ~> (Active(d) \/ dismissed[d])

\* A dismissed dialog that is in the queue stays there, whatever happens.
DismissedStaysQueued ==
  [][\A d \in Dialogs : InSeq(d, pending) /\ dismissed[d] => InSeq(d, pending')]_vars

\* C13. Queue advance: no dialog waits in the queue behind a dialog that has
\* been dismissed.
C13_QueueAdvance ==
  \A k \in 2..Len(pending) : ~dismissed[Head(pending)]

\* The value Escape resolves d with: that of its first cancel button, none
\* if it has no cancel button.
EscapeValue(d) ==
  LET i == firstOfType(Buttons(d), "cancel")
  IN IF i # 0 THEN Buttons(d)[i].value ELSE Undefined

\* C14. Escape on an Active dialog: if the dialog is not cancelable nothing
\* changes (fields, elements, queue, microtasks, emissions, callbacks); if it
\* is cancelable it is dismissed with cancelled set and the value of its
\* first cancel button (no value without one) as result, and it emits
\* "cancelled" then "closed" with that result, never "complete".
C14_EscapeOnActive ==
  [][\A d \in Dialogs :
       last'.op = "keydown" /\ last'.key = KeyEscape /\ Active(d) =>
         IF ~Truthy(cfg[d].cancelable)
         THEN /\ dismissed'[d] = dismissed[d] /\ result'[d] = result[d]
              /\ cancelled'[d] = cancelled[d] /\ elems'[d] = elems[d]
              /\ log'[d] = log[d] /\ callback'[d] = callback[d]
              /\ pending' = pending /\ micro' = micro /\ listeners' = listeners
         ELSE /\ dismissed'[d] /\ cancelled'[d]
              /\ result'[d] = EscapeValue(d)
              /\ ~InSeq(d, pending')
              /\ log'[d] = log[d] \o <<<<"cancelled", EscapeValue(d)>>,
                                        <<"closed", EscapeValue(d)>>>>]_vars

\* C14, its case: Escape was pressed on an Active dialog that is not
\* cancelable, and the dialog is still Active.
C14_Witness ==
  \E d \in Dialogs :
    /\ last.op = "keydown" /\ last.key = KeyEscape /\ d \in last.act
    /\ ~Truthy(cfg[d].cancelable)
    /\ Active(d)

\* C15. Button activation: pressing a button of an Active dialog dismisses
\* the dialog with the button's value as result; cancelled is set, and
\* "cancelled" emitted instead of "complete", exactly when the button's type
\* is cancel.
C15_ButtonActivation ==
  \A d \in Dialogs :
    last.op = "button" /\ last.d = d /\ d \in last.act =>
      LET b == Buttons(d)[last.btn]
      IN /\ dismissed[d] /\ JustDismissed(d)
         /\ result[d] = b.value
         /\ cancelled[d] <=> b.type = "cancel"
         /\ EndsWith(d, IF b.type = "cancel" THEN "cancelled" ELSE "complete", b.value)
         /\ callback[d][last.btn] = b.value

\* C15, its case: the cancel button of an Active prompt was pressed.
C15_Witness ==
  \E d \in Dialogs :
    /\ last.op = "button" /\ last.d = d /\ d \in last.act
    /\ cfg[d].kind = "prompt" /\ Buttons(d)[last.btn].type = "cancel"
    /\ cancelled[d] /\ result[d] = False

\* C16 as stated: Enter on an Active dialog with a default button invokes
\* that button's callback with the result the dialog held before the
\* dismissal.
C16_CallbackPreDismissResult ==
  [][\A d \in Dialogs :
       LET i == firstOfType(Buttons(d), "default")
       IN last'.op = "keydown" /\ last'.key = KeyEnter /\ Active(d) /\ i # 0 =>
            callback'[d][i] = result[d]]_vars

\* C16 as amended: Enter on an Active dialog with a default button invokes
\* that button's callback with the result the dismissal has just stored, the
\* button's value.
C16_CallbackButtonValue ==
  \A d \in Dialogs :
    LET i == firstOfType(Buttons(d), "default")
    IN last.op = "keydown" /\ last.key = KeyEnter /\ d \in last.act /\ i # 0 =>
         /\ callback[d][i] = Buttons(d)[i].value
         /\ callback[d][i] = result[d]

\* C16, its case: Enter on an Active confirm, whose default button has the
\* value true while the result before was false.
C16_Witness ==
  \E d \in Dialogs :
    /\ last.op = "keydown" /\ last.key = KeyEnter /\ d \in last.act
    /\ cfg[d].kind = "confirm"
    /\ callback[d][1] = True /\ result[d] = True

\* C17. Timed dismissal: a dialog with a dismissIn timer set is eventually
\* dismissed; when a timer fires it is used up, and if the dialog is not yet
\* dismissed, Queued or Active or not even shown, it is dismissed with no
\* value, cancelled, emitting "cancelled" then "closed"; if it is already
\* dismissed nothing of it changes and nothing is emitted.
C17_TimedDismissal ==
  /\ [][\A d \in Dialogs :
          last'.op = "timer" /\ last'.d = d =>
            /\ timers'[d] = timers[d] - 1
            /\ IF dismissed[d]
               THEN /\ result'[d] = result[d] /\ cancelled'[d] = cancelled[d]
                    /\ log'[d] = log[d] /\ elems'[d] = elems[d]
                    /\ dismissed'[d] /\ pending' = pending /\ micro' = micro
               ELSE /\ dismissed'[d] /\ cancelled'[d] /\ result'[d] = Undefined
                    /\ ~InSeq(d, pending')
                    /\ log'[d] = log[d] \o <<<<"cancelled", Undefined>>,
                                              <<"closed", Undefined>>>>]_vars
  /\ \A d \in Dialogs : (timers[d] > 0) ~> dismissed[d]

\* C17, its case: the timer fired on a dialog that was still waiting in the
\* queue and dismissed it.
C17_Witness ==
  \E d \in Dialogs :
    /\ last.op = "timer" /\ last.d = d
    /\ JustDismissed(d) /\ early[d]
    /\ cancelled[d] /\ result[d] = Undefined

\* C18. Text-field confirm-trigger: when the user presses Enter in a text
\* field of an Active dialog, the dialog is dismissed with the result
\* "enter-pressed" if the field is the last one (the dismissal that key press
\* causes emits "closed" with that result, and the dialog is dismissed once
\* the keypress event has been handled), and stays Active if it is not.
C18_TextFieldEnter ==
  \A d \in Dialogs :
    /\ last.op = "enterKey" /\ last.d = d /\ d \in last.act
         /\ last.btn < Len(cfg[d].textFields) => Active(d)
    /\ by[d].op \in {"enterKey", "keypress"} /\ by[d].d = d
         /\ by[d].btn = Len(cfg[d].textFields) =>
           \A k \in Emitted(d, "closed") : log[d][k][2] = Str("enter-pressed")
    /\ last.op = "keypress" /\ last.d = d /\ d \in last.act
         /\ last.btn = Len(cfg[d].textFields) => dismissed[d]

\* The handlers of input events: button and backdrop presses, key events.
InputOps == {"button", "backdrop", "keydown", "fieldEnter", "enterKey", "keypress"}

\* C19. Input events are no-ops outside Active: an input event that arrives
\* when a dialog is already dismissed leaves that dialog's result and
\* cancelled flag as they were, invokes none of its button callbacks and
\* emits nothing.
C19_InputAfterDismissal ==
  [][\A d \in Dialogs :
       dismissed[d] /\ last'.op \in InputOps =>
         /\ result'[d] = result[d] /\ cancelled'[d] = cancelled[d]
         /\ callback'[d] = callback[d]
         /\ log'[d] = log[d]]_vars

\* C20. Dismissed is terminal: a dialog that has been dismissed is not in the
\* presentation queue, whatever is called on it afterwards.
C20_DismissedTerminal ==
  \A d \in Dialogs : dismissed[d] => ~InSeq(d, pending)
====
